---- MODULE Spec2Model ----
(***************************************************************************)
(* A model of fps-timer (src/src/lib.rs): the frame-pacing Timer, its two  *)
(* wait primitives and its statistics window.                              *)
(* The clock is read only inside frame(): `now` is its last reading.        *)
(*                                                                         *)
(* Time is counted in ticks of the monotonic clock.  An Instant is the     *)
(* number of ticks since an arbitrary origin, a Duration a number of       *)
(* ticks.  One tick stands for MAX_BUSY_WAIT (250 microseconds on unix);   *)
(* the default period and log interval are scaled down to a few ticks so   *)
(* that the state space stays finite.                                      *)
(***************************************************************************)
EXTENDS Integers, Sequences, FiniteSets, TLC

\* ------------------------------------------------------------------ bounds
\* the clock is not read past MaxTime
MaxTime == 8
\* the caller spends up to MaxWork ticks between two calls of frame()
MaxWork == 4
\* frame() is not called more than MaxFrames times
MaxFrames == 4
\* the setters are not called more than MaxSetterCalls times
MaxSetterCalls == 1
\* a clock sample may be taken up to MaxJitter ticks after the previous event
MaxJitter == 1
\* thread::sleep may return up to MaxOversleep ticks late
MaxOversleep == 1
\* periods and log intervals given to the setters are drawn from 0..MaxArg
MaxArg == 3
\* width in bits of the narrowed frame difference (u32 in the source)
U32Bits == 1
\* ticks in one second: fps(f) asks for a period of TicksPerSec / f ticks
TicksPerSec == 4
\* rates given to fps() are drawn from 0..MaxFps
MaxFps == 2

\* --------------------------------------------------------------- constants
\* lib.rs:50  const MAX_BUSY_WAIT (one tick)
MAX_BUSY_WAIT == 1
\* lib.rs:113 default delta_time (1/60 s, scaled)
DefaultDeltaTime == 2
\* lib.rs:114 default log_interval (100 ms, scaled)
DefaultLogInterval == 3
\* lib.rs:124 default max_delay_frames
DefaultMaxDelayFrames == 2

\* no thread::sleep was requested
NoSleep == 0 - 1

VARIABLES
    now,                \* the monotonic clock: the value Instant::now() returns
    previous,           \* Timer.previous
    previous_log,       \* Timer.previous_log
    target,             \* Timer.target
    log_target,         \* Timer.log_target
    delta_time,         \* Timer.delta_time
    log_interval,       \* Timer.log_interval
    prev_framecount,    \* Timer.prev_framecount
    framecount,         \* Timer.framecount
    max_delay_frames,   \* Timer.max_delay_frames
    high_precision,     \* Timer.high_precision
    panicked,           \* the thread has panicked (division by zero in log())
    op,                 \* the last call made on the timer
    ret,                \* the Duration returned by the last frame()
    snap,               \* the Option<Log> returned by the last log()
    fobs,               \* what the last frame() call saw and did
    lobs,               \* what the last log() call saw and did
    arg,                \* the argument of that call, if it was a setter
    nset,               \* how many setter calls were made
    run_base,           \* the target before the current run of frame() calls
    run_n,              \* the length of that run: calls since the last resynchronisation
    catchup,            \* the last frame() call came late but within the slack
    resynced,           \* the last frame() call resynchronised the target
    anchor,             \* `previous` at the last snapshot, or at creation
    created,            \* the Instant at which Timer::default() ran
    total,              \* the sum of the Durations frame() has returned
    nframes,            \* how many frame() calls were made
    log_base            \* `previous` when log_target was last written

timer == <<previous, previous_log, target, log_target, delta_time, log_interval,
           prev_framecount, framecount, max_delay_frames, high_precision>>

vars == <<now, previous, previous_log, target, log_target, delta_time,
          log_interval, prev_framecount, framecount, max_delay_frames,
          high_precision, panicked, op, ret, snap, fobs, lobs, arg, nset,
          run_base, run_n, catchup, resynced, anchor, created, total, nframes,
          log_base>>

Max(a, b) == IF a >= b THEN a ELSE b

\* Option<Log>::None and Some(Log { delta_avg })
None == [some |-> FALSE, delta_avg |-> 0]
Some(d) == [some |-> TRUE, delta_avg |-> d]

NoFrameObs == [work |-> 0, cur0 |-> 0, prev0 |-> 0, tgt0 |-> 0, eff |-> 0,
               reset |-> FALSE, waited |-> FALSE, slept |-> NoSleep, samples |-> 0,
               late |-> FALSE, follow |-> FALSE, after_resync |-> FALSE,
               first |-> 0]
NoLogObs == [passed |-> FALSE, frames |-> 0, wide |-> 0, cur |-> 0, plog0 |-> 0,
             anchor0 |-> 0]

\* ------------------------------------------------------------ std library
\* an f64: a finite non-negative ratio num/den, or one of the special values
F64(n, d) == [kind |-> "finite", num |-> n, den |-> d]
PosInf == [kind |-> "inf", num |-> 1, den |-> 0]
NaN == [kind |-> "nan", num |-> 0, den |-> 0]
\* not a value: the operation did not return
Trap == [kind |-> "trap", num |-> 0, den |-> 0]

\* variant: a zero divisor traps, as it does for integers
Mut_f64_div(x, y) ==
    IF y.num = 0 THEN Trap ELSE F64(x.num * y.den, x.den * y.num)
\* f64 / f64 (IEEE 754): a zero divisor gives infinity, or NaN for 0/0
f64_div(x, y) ==
    IF y.num = 0
      THEN IF x.num = 0 THEN NaN ELSE PosInf
      ELSE F64(x.num * y.den, x.den * y.num)

\* f64 * f64
f64_mul(x, y) == F64(x.num * y.num, x.den * y.den)

\* Duration::as_secs_f64
as_secs_f64(d) == F64(d, TicksPerSec)

\* variant: the two instants swapped
Mut_duration_since(a, b) == IF b >= a THEN b - a ELSE 0
\* Instant::duration_since / Instant - Instant: saturates at zero
duration_since(a, b) == IF a >= b THEN a - b ELSE 0

\* thread::sleep(d) started at `start`: sleeps at least d
thread_sleep(d, start) == { start + d + o : o \in 0..MaxOversleep }

\* Instant::now() called some time after `start`
Instant_now(start) == { start + j : j \in 0..MaxJitter }

\* ---------------------------------------------------------- wait primitives
\* variant: returns its first sample, whether or not it has reached tgt
Mut_busy_wait_until(tgt, start) == Instant_now(start)
\* spins, sampling the clock from `start` on, until a sample is >= tgt
busy_wait_until(tgt, start) == Instant_now(Max(start, tgt))

\* each primitive yields the set of its possible outcomes: the Instant it
\* returns, the Duration it asked thread::sleep for, how many clock samples
\* it took at least, and the first of them (its local `now`)
sleep_until_high_precision(tgt, start) ==
    UNION { IF t >= tgt
              THEN { [time |-> t, slept |-> NoSleep, samples |-> 1, first |-> t] }
              ELSE LET approx_duration == duration_since(tgt, t)
                   IN IF approx_duration > MAX_BUSY_WAIT
                        THEN { [time |-> r, slept |-> approx_duration - MAX_BUSY_WAIT,
                                samples |-> 2, first |-> t] :
                               r \in UNION { busy_wait_until(tgt, w) :
                                   w \in thread_sleep(approx_duration - MAX_BUSY_WAIT, t) } }
                        ELSE { [time |-> r, slept |-> NoSleep, samples |-> 2,
                                first |-> t] :
                               r \in busy_wait_until(tgt, t) }
          : t \in Instant_now(start) }

\* variant: the coarse wait keeps the busy-wait margin of the precise one
Mut_sleep_until(tgt, start) == sleep_until_high_precision(tgt, start)
\* sleeps for the whole gap, then spins
sleep_until(tgt, start) ==
    UNION { IF t >= tgt
              THEN { [time |-> t, slept |-> NoSleep, samples |-> 1, first |-> t] }
              ELSE LET suspend_duration == tgt - t
                   IN { [time |-> r, slept |-> suspend_duration, samples |-> 2,
                        first |-> t] :
                        r \in UNION { busy_wait_until(tgt, w) :
                            w \in thread_sleep(suspend_duration, t) } }
          : t \in Instant_now(start) }

\* ------------------------------------------------------------------- Timer
\* Timer::default()
Timer_default ==
    /\ created = 0
    /\ now = created
    /\ framecount = 0
    /\ log_interval = DefaultLogInterval
    /\ previous = now
    /\ target = now + DefaultDeltaTime
    /\ previous_log = now
    /\ prev_framecount = 0
    /\ log_target = now + DefaultLogInterval
    /\ delta_time = DefaultDeltaTime
    /\ max_delay_frames = DefaultMaxDelayFrames
    /\ high_precision = TRUE
    /\ panicked = FALSE
    /\ op = "default"
    /\ ret = 0
    /\ snap = None
    /\ fobs = NoFrameObs
    /\ lobs = NoLogObs
    /\ arg = 0
    /\ nset = 0
    /\ run_base = target
    /\ run_n = 0
    /\ catchup = FALSE
    /\ resynced = FALSE
    /\ anchor = created
    /\ total = 0
    /\ nframes = 0
    /\ log_base = created

\* variant: the frame count is left out
Mut_slack_of(n, d) == d
\* u32 * Duration
slack_of(n, d) == n * d

\* Timer::slack
Timer_slack == slack_of(max_delay_frames, delta_time)

\* frame(): how far `current` is past the target
behind(current, tgt) == IF current > tgt THEN current - tgt ELSE 0

\* variant: a lag equal to the slack counts as too late
Mut_exceeds_slack(b, s) == b >= s
\* frame(): `behind > self.slack()`
exceeds_slack(b, s) == b > s

\* variant: any late call resynchronises (no slack)
Mut_catch_up_always(current, tgt) == IF current > tgt THEN current ELSE tgt
\* variant: no call resynchronises
Mut_catch_up_never(current, tgt) == tgt
\* frame(): the catch-up decision; the target the call then waits for
catch_up(current, tgt) ==
    IF exceeds_slack(behind(current, tgt), Timer_slack) THEN current ELSE tgt

\* variant: the pacing block runs for a zero period too
Mut_paced == TRUE
\* frame(): `if self.delta_time > Duration::ZERO`
paced == delta_time > 0

\* variant: the next target is counted from the previous frame's timestamp
Mut_advance(tgt) == previous + delta_time
\* frame(): self.target += self.delta_time
advance(tgt) == tgt + delta_time

\* variant: frame() moves the log boundary along with every frame
Mut_frame_stats ==
    /\ log_target' = previous' + log_interval
    /\ UNCHANGED <<previous_log, prev_framecount, log_interval>>
\* frame() writes none of the fields of the statistics window
frame_stats == UNCHANGED <<previous_log, log_target, prev_framecount, log_interval>>

\* frame(): what a call made `work` ticks after the last clock reading can
\* return, and the `previous` and `target` it then leaves
frame_returns(work) ==
    LET current0 == now + work
        eff == IF paced THEN catch_up(current0, target) ELSE target
        outs == IF paced /\ current0 < eff
                  THEN IF high_precision
                         THEN sleep_until_high_precision(eff, current0)
                         ELSE sleep_until(eff, current0)
                  ELSE { [time |-> current0, slept |-> NoSleep, samples |-> 0,
                          first |-> current0] }
    IN { [ret |-> duration_since(w.time, previous), previous |-> w.time,
          target |-> IF paced THEN advance(eff) ELSE target] : w \in outs }

\* Timer::frame, called `work` ticks after the clock was last read
Timer_frame(work) ==
    /\ ~panicked
    /\ framecount < MaxFrames
    /\ LET current0 == now + work
           reset == paced /\ exceeds_slack(behind(current0, target), Timer_slack)
           eff == IF paced THEN catch_up(current0, target) ELSE target
           waits == paced /\ current0 < eff
           outs == IF waits
                     THEN IF high_precision
                            THEN sleep_until_high_precision(eff, current0)
                            ELSE sleep_until(eff, current0)
                     ELSE { [time |-> current0, slept |-> NoSleep, samples |-> 0,
                             first |-> current0] }
           \* the call came late by no more than max_delay_frames periods
           late == /\ delta_time > 0
                   /\ current0 > target
                   /\ current0 - target <= max_delay_frames * delta_time
           \* the call follows such a call after less than a period of work
           follow == catchup /\ work < delta_time /\ current0 >= target
       IN \E w \in outs :
            /\ w.time <= MaxTime
            /\ framecount' = framecount + 1
            /\ now' = w.time
            /\ target' = IF paced THEN advance(eff) ELSE target
            /\ ret' = duration_since(w.time, previous)
            /\ previous' = w.time
            /\ total' = total + duration_since(w.time, previous)
            /\ fobs' = [work |-> work, cur0 |-> current0, prev0 |-> previous,
                        tgt0 |-> target, eff |-> eff, reset |-> reset,
                        waited |-> waits, slept |-> w.slept,
                        samples |-> 1 + w.samples, late |-> late,
                        follow |-> follow, after_resync |-> resynced,
                        first |-> w.first]
            /\ run_base' = IF reset THEN target' ELSE run_base
            /\ run_n' = IF reset THEN 0 ELSE IF delta_time > 0 THEN run_n + 1 ELSE run_n
            /\ catchup' = (late \/ follow)
            /\ resynced' = reset
    /\ op' = "frame"
    /\ snap' = None
    /\ lobs' = NoLogObs
    /\ arg' = 0
    /\ nframes' = nframes + 1
    /\ frame_stats
    /\ UNCHANGED <<delta_time, max_delay_frames, high_precision,
                   panicked, nset, anchor, created, log_base>>

\* `as u32`: keeps the low U32Bits bits
U32Mod == 2 ^ U32Bits
as_u32(n) == n % U32Mod

\* Duration / u32: whole ticks; panics when the divisor is zero
Duration_div(d, n) == d \div n

\* log(): the frames counted since the last snapshot, narrowed
frames_since_log == as_u32(framecount - prev_framecount)

\* Log::delta_time_avg
Log_delta_time_avg(l) == l.delta_avg

\* Log::delta_time_avg_ms
Log_delta_time_avg_ms(l) == f64_mul(as_secs_f64(l.delta_avg), F64(1000, 1))

\* Log::fps_average
Log_fps_average(l) == f64_div(F64(1, 1), as_secs_f64(l.delta_avg))

\* variant: the boundary advances by fixed increments from the old boundary
Mut_next_log_target(current) == log_target + log_interval
\* log(): self.log_target = current + self.log_interval
next_log_target(current) == current + log_interval

\* Timer::log
Timer_log ==
    /\ ~panicked
    /\ LET current == previous
       IN IF current < log_target
            THEN /\ snap' = None
                 /\ lobs' = [NoLogObs EXCEPT !.cur = current, !.anchor0 = anchor]
                 /\ UNCHANGED <<previous_log, log_target, prev_framecount,
                                panicked, anchor, log_base>>
            ELSE LET frames == frames_since_log
                 IN /\ lobs' = [passed |-> TRUE, frames |-> frames,
                                wide |-> framecount - prev_framecount,
                                cur |-> current, plog0 |-> previous_log,
                                anchor0 |-> anchor]
                    /\ IF frames = 0
                         THEN /\ panicked' = TRUE
                              /\ snap' = None
                              /\ UNCHANGED <<previous_log, log_target,
                                             prev_framecount, anchor, log_base>>
                         ELSE /\ snap' = Some(Duration_div(
                                       duration_since(current, previous_log), frames))
                              /\ log_target' = next_log_target(current)
                              /\ previous_log' = current
                              /\ prev_framecount' = framecount
                              /\ anchor' = current
                              /\ log_base' = current
                              /\ UNCHANGED panicked
    /\ op' = "log"
    /\ ret' = 0
    /\ fobs' = NoFrameObs
    /\ arg' = 0
    /\ UNCHANGED <<now, previous, target, delta_time, log_interval, framecount,
                   max_delay_frames, high_precision, nset, run_base, run_n,
                   catchup, resynced, created, total, nframes>>

\* what every setter leaves alone
SetterFrame ==
    /\ ~panicked
    /\ nset < MaxSetterCalls
    /\ nset' = nset + 1
    /\ ret' = 0
    /\ snap' = None
    /\ fobs' = NoFrameObs
    /\ lobs' = NoLogObs
    /\ UNCHANGED <<now, previous, previous_log, prev_framecount, framecount,
                   max_delay_frames, panicked, anchor, created, total, nframes>>

\* a setter of the period starts a new schedule
NewSchedule ==
    /\ run_base' = target'
    /\ run_n' = 0
    /\ catchup' = FALSE
    /\ resynced' = FALSE

\* Timer::log_interval
Timer_log_interval(li) ==
    /\ log_interval' = li
    /\ log_target' = previous + li
    /\ log_base' = previous
    /\ op' = "log_interval"
    /\ arg' = li
    /\ SetterFrame
    /\ UNCHANGED <<target, delta_time, high_precision, run_base, run_n,
                   catchup, resynced>>

\* Timer::frame_time
Timer_frame_time(delta) ==
    /\ delta_time' = delta
    /\ target' = previous + delta
    /\ op' = "frame_time"
    /\ arg' = delta
    /\ NewSchedule
    /\ SetterFrame
    /\ UNCHANGED <<log_target, log_interval, high_precision, log_base>>

\* Duration::from_secs_f64(1. / fps), to the nearest tick
secs_to_duration(fps) == (2 * TicksPerSec + fps) \div (2 * fps)

\* fps(): the period a rate stands for
fps_duration(fps) == IF fps = 0 THEN 0 ELSE secs_to_duration(fps)

\* Timer::fps
Timer_fps(fps) ==
    /\ delta_time' = fps_duration(fps)
    /\ target' = previous + fps_duration(fps)
    /\ op' = "fps"
    /\ arg' = fps
    /\ NewSchedule
    /\ SetterFrame
    /\ UNCHANGED <<log_target, log_interval, high_precision, log_base>>

\* Timer::high_precision
Timer_high_precision(enabled) ==
    /\ high_precision' = enabled
    /\ op' = "high_precision"
    /\ arg' = 0
    /\ SetterFrame
    /\ UNCHANGED <<target, log_target, delta_time, log_interval, run_base,
                   run_n, catchup, resynced, log_base>>

Next ==
    \/ \E work \in 0..MaxWork : Timer_frame(work)
    \/ Timer_log
    \/ \E li \in 0..MaxArg : Timer_log_interval(li)
    \/ \E delta \in 0..MaxArg : Timer_frame_time(delta)
    \/ \E fps \in 0..MaxFps : Timer_fps(fps)
    \/ \E enabled \in BOOLEAN : Timer_high_precision(enabled)

Spec == Timer_default /\ [][Next]_vars

\* the calls that configure a timer
Setters == {"default", "log_interval", "frame_time", "fps", "high_precision"}

\* a loop that configures the timer with a positive log interval and then
\* calls frame() and log() in turn
LoopNext ==
    \/ op \in Setters /\ \E li \in 1..MaxArg : Timer_log_interval(li)
    \/ op \in Setters /\ \E delta \in 0..MaxArg : Timer_frame_time(delta)
    \/ op \in Setters /\ \E fps \in 0..MaxFps : Timer_fps(fps)
    \/ op \in Setters /\ \E enabled \in BOOLEAN : Timer_high_precision(enabled)
    \/ op # "frame" /\ \E work \in 0..MaxWork : Timer_frame(work)
    \/ op = "frame" /\ Timer_log

LoopSpec == Timer_default /\ [][LoopNext]_vars

\* ------------------------------------------------- the wait primitives alone
\* a wait primitive is about to be called: the clock reads `now`, the
\* deadline it is given is `target`, `high_precision` selects the primitive
WaitInit ==
    /\ created = 0
    /\ now \in 0..MaxWork
    /\ target \in 0..MaxTime
    /\ high_precision \in BOOLEAN
    /\ framecount = 0
    /\ log_interval = DefaultLogInterval
    /\ previous = created
    /\ previous_log = created
    /\ prev_framecount = 0
    /\ log_target = created + DefaultLogInterval
    /\ delta_time = DefaultDeltaTime
    /\ max_delay_frames = DefaultMaxDelayFrames
    /\ panicked = FALSE
    /\ op = "default"
    /\ ret = 0
    /\ snap = None
    /\ fobs = NoFrameObs
    /\ lobs = NoLogObs
    /\ arg = 0
    /\ nset = 0
    /\ run_base = target
    /\ run_n = 0
    /\ catchup = FALSE
    /\ resynced = FALSE
    /\ anchor = created
    /\ total = 0
    /\ nframes = 0
    /\ log_base = created

\* one call of the selected primitive, as frame() selects it
WaitCall ==
    /\ op = "default"
    /\ \E w \in IF high_precision
                   THEN sleep_until_high_precision(target, now)
                   ELSE sleep_until(target, now) :
         /\ now' = w.time
         /\ fobs' = [NoFrameObs EXCEPT !.cur0 = now, !.tgt0 = target,
                                       !.eff = target, !.waited = TRUE,
                                       !.slept = w.slept, !.samples = w.samples,
                                       !.first = w.first]
    /\ op' = "wait"
    /\ UNCHANGED <<previous, previous_log, target, log_target, delta_time,
                   log_interval, prev_framecount, framecount, max_delay_frames,
                   high_precision, panicked, ret, snap, lobs, arg, nset,
                   run_base, run_n, catchup, resynced, anchor, created, total,
                   nframes, log_base>>

WaitSpec == WaitInit /\ [][WaitCall]_vars

\* one millisecond: four times the 250 microseconds of MAX_BUSY_WAIT
ONE_MS == 4 * MAX_BUSY_WAIT

\* ------------------------------------------------------------------ claims

\* C1: every frame() call returns the instant at which it unblocked minus the
\* value `previous` had at entry, and leaves `previous` at that instant; the
\* first call measures from the creation timestamp.  Period zero included.
C1_FrameTime ==
    op = "frame" =>
        /\ ret = now - fobs.prev0
        /\ previous = now
        /\ now >= fobs.cur0
        /\ (framecount = 1 => fobs.prev0 = created)

\* a later call that waited and returned a positive frame time
C1_Witness ==
    op = "frame" /\ framecount >= 2 /\ fobs.waited /\ ret > 0 /\ now > fobs.cur0

\* C2: with a positive period, frame() never unblocks before the deadline in
\* effect for the call (the target after the catch-up decision), so that
\* previous + period >= target afterwards, with either wait primitive.
C2_NotBeforeDeadline ==
    op = "frame" /\ delta_time > 0 =>
        /\ previous >= fobs.eff
        /\ previous + delta_time >= target

\* a call that had to wait with the coarse primitive
C2_Witness ==
    op = "frame" /\ delta_time > 0 /\ fobs.waited /\ ~high_precision
        /\ fobs.slept > 0

\* C3: with a positive period, frame() resets the target to the current time
\* if and only if behind = max(0, now - target) exceeds
\* slack = max_delay_frames * period strictly; otherwise the target is left
\* as it was before the wait.  With a period of 1/60 s (16666 microseconds)
\* and max_delay_frames = 2 a call 20 ms late does not reset, one 50 ms late
\* does.
C3_CatchUpPolicy ==
    /\ op = "frame" /\ delta_time > 0 =>
         LET b == Max(0, fobs.cur0 - fobs.tgt0)
             s == max_delay_frames * delta_time
         IN /\ fobs.reset <=> (b > s)
            /\ fobs.eff = IF b > s THEN fobs.cur0 ELSE fobs.tgt0
    /\ ~exceeds_slack(behind(20000, 0), slack_of(2, 16666))
    /\ exceeds_slack(behind(50000, 0), slack_of(2, 16666))

\* a call that came exactly `slack` late, and so did not reset
C3_Witness ==
    op = "frame" /\ delta_time > 0
        /\ fobs.cur0 - fobs.tgt0 = max_delay_frames * delta_time
        /\ ~fobs.reset

\* C4: with a positive period every frame() call leaves the target exactly one
\* period after the deadline it used, so after N consecutive calls without a
\* reset the target is the target before the first of them plus N periods,
\* however late the calls came and however long the waits overshot.
C4_NoDrift ==
    /\ op = "frame" /\ delta_time > 0 => target = fobs.eff + delta_time
    /\ delta_time > 0 => target = run_base + run_n * delta_time

\* three calls without a reset, the last of which returned past its deadline
C4_Witness ==
    op = "frame" /\ delta_time > 0 /\ run_n >= 3 /\ previous > fobs.eff

\* C5: with a positive period, a call that comes late by no more than the
\* slack does not reset the target, and as long as the caller then spends
\* less than a period between calls, each following call that again arrives
\* at or after its target returns without waiting, returns less than the
\* period, and does not reset the target either.
C5_CatchUp ==
    /\ op = "frame" /\ fobs.late => ~fobs.reset /\ ~fobs.waited
    /\ op = "frame" /\ fobs.follow =>
         /\ ~fobs.reset
         /\ ~fobs.waited
         /\ ret < delta_time
         /\ target = fobs.tgt0 + delta_time

\* the second call of a catch-up phase, still behind its target
C5_Witness ==
    op = "frame" /\ fobs.follow /\ fobs.cur0 > fobs.tgt0 /\ run_n >= 2

\* C6: with a positive period, a call that arrives more than the slack after
\* its target returns at once and leaves target = previous + period; the call
\* after it returns no earlier than one period later.
C6_Resync ==
    /\ op = "frame" /\ delta_time > 0
          /\ fobs.cur0 - fobs.tgt0 > max_delay_frames * delta_time =>
         /\ ~fobs.waited
         /\ previous = fobs.cur0
         /\ target = previous + delta_time
    /\ op = "frame" /\ fobs.after_resync => ret >= delta_time /\ delta_time > 0

\* the call after a resynchronisation, which waited for the new target
C6_Witness ==
    op = "frame" /\ fobs.after_resync /\ fobs.waited

\* C7: with a period of zero (set directly or by fps(0)) frame() does not
\* wait, takes no catch-up decision, leaves the target alone and returns the
\* one clock sample it took minus `previous`, whatever the target is.
C7_Uncapped ==
    /\ op = "frame" /\ delta_time = 0 =>
         /\ ~fobs.waited
         /\ ~fobs.reset
         /\ fobs.slept = NoSleep
         /\ fobs.samples = 1
         /\ target = fobs.tgt0
         /\ now = fobs.cur0
         /\ previous = fobs.cur0
         /\ ret = fobs.cur0 - fobs.prev0
    /\ op = "fps" /\ arg = 0 => delta_time = 0

\* a later uncapped call, made after the stored target, that measured time
C7_Witness ==
    op = "frame" /\ delta_time = 0 /\ framecount >= 2 /\ now > target /\ ret > 0

\* C8: in a loop that calls frame() and then log() with a positive log
\* interval, log() returns None as long as `previous` is less than one log
\* interval past creation, and from then on returns a snapshot on exactly the
\* calls at which `previous` has reached the next interval boundary, one log
\* interval after the last snapshot (after creation for the first).
C8_OnePerInterval ==
    op = "log" =>
        /\ previous - created < log_interval => ~snap.some
        /\ snap.some <=> previous >= lobs.anchor0 + log_interval

\* C9: whenever log() gets past its interval check, the frame count it
\* divides by, framecount - prev_framecount narrowed to u32, is at least 1.
C9_FramesAtLeastOne ==
    op = "log" /\ lobs.passed => lobs.frames >= 1 /\ ~panicked

\* C10: a snapshot carries (previous - previous_log) divided by
\* (framecount - prev_framecount), all taken at entry to log().
C10_DeltaAvg ==
    op = "log" /\ snap.some =>
        snap.delta_avg = (lobs.cur - lobs.plog0) \div lobs.wide

\* C11: no accessor of a snapshot fails; for a snapshot whose average frame
\* duration is zero fps_average returns positive infinity.
C11_RateNeverTraps ==
    op = "log" /\ snap.some =>
        /\ Log_delta_time_avg(snap) >= 0
        /\ Log_delta_time_avg_ms(snap).kind = "finite"
        /\ Log_fps_average(snap).kind \in {"finite", "inf"}
        /\ snap.delta_avg = 0 => Log_fps_average(snap) = PosInf
        /\ snap.delta_avg > 0 =>
             Log_fps_average(snap) = F64(TicksPerSec, snap.delta_avg)

\* a snapshot taken over a window in which the clock did not advance
C11_Witness ==
    op = "log" /\ snap.some /\ snap.delta_avg = 0 /\ lobs.wide >= 1

\* C12: a call of frame() or log() never moves the target backwards; with a
\* positive period every frame() call moves it strictly forwards, and log()
\* leaves it where it is.
C12_TargetMonotone ==
    [][ /\ framecount' # framecount =>
             /\ target' >= target
             /\ delta_time > 0 => target' > target
        /\ op' = "log" => target' = target ]_vars

\* a frame() call that resynchronised: the target moved by more than a period
C12_Witness ==
    op = "frame" /\ delta_time > 0 /\ fobs.reset
        /\ target > fobs.tgt0 + delta_time

\* C13 as stated: at the end of every frame() call with a positive period the
\* target is not earlier than the timestamp the call recorded.
C13_TargetNotPast ==
    op = "frame" /\ delta_time > 0 => target >= previous

\* C13 as amended: at the end of a frame() call with a positive period the
\* target is not earlier than `previous` exactly when the call returned no
\* more than one period after the deadline it used: always after a
\* resynchronisation, after a call that came late within the slack only if
\* it came at most one period late, after a wait only if the wait overshot by
\* at most one period.
C13_TargetNotPastAmended ==
    op = "frame" /\ delta_time > 0 =>
        LET lag == fobs.cur0 - fobs.tgt0
        IN /\ lag > max_delay_frames * delta_time => target >= previous
           /\ (0 <= lag /\ lag <= max_delay_frames * delta_time) =>
                (target >= previous <=> lag <= delta_time)
           /\ lag < 0 =>
                (target >= previous <=> previous - fobs.tgt0 <= delta_time)

\* a call that came more than one period late, but within the slack
C13_Witness ==
    op = "frame" /\ delta_time > 0 /\ ~fobs.reset
        /\ fobs.cur0 - fobs.tgt0 > delta_time /\ target < previous

\* C14 as stated: the coarse wait (high_precision = false) returns its first
\* sample without suspending when that sample is at or past the target;
\* otherwise, with gap = target - now, it asks thread::sleep for exactly
\* gap - 1ms, for nothing when gap <= 1ms, so always for less than the gap,
\* and then spins until the clock reaches the target.
C14_CoarseWait ==
    op = "wait" /\ ~high_precision =>
        LET gap == fobs.tgt0 - fobs.first
        IN /\ gap <= 0 => fobs.slept = NoSleep /\ now = fobs.first
           /\ gap > 0 =>
                /\ gap > ONE_MS => fobs.slept = gap - ONE_MS
                /\ gap <= ONE_MS => fobs.slept = NoSleep
                /\ fobs.slept < gap
                /\ now >= fobs.tgt0

\* C14 amended: the coarse wait returns its first sample without suspending
\* when that sample is at or past the target; otherwise it asks
\* thread::sleep for the whole gap = target - now, whatever its length, and
\* then spins until the clock reaches the target.  The margin that is kept
\* for spinning belongs to the high-precision wait alone.
C14_CoarseWaitAmended ==
    /\ op = "wait" /\ ~high_precision =>
         LET gap == fobs.tgt0 - fobs.first
         IN /\ gap <= 0 =>
                 fobs.slept = NoSleep /\ now = fobs.first /\ fobs.samples = 1
            /\ gap > 0 =>
                 fobs.slept = gap /\ now >= fobs.tgt0 /\ fobs.samples >= 2
    /\ op = "wait" /\ high_precision =>
         LET gap == fobs.tgt0 - fobs.first
         IN /\ gap > MAX_BUSY_WAIT => fobs.slept = gap - MAX_BUSY_WAIT
            /\ gap <= MAX_BUSY_WAIT => fobs.slept = NoSleep
            /\ now >= fobs.tgt0

\* a coarse wait over a gap of more than a millisecond, all of it slept
C14_Witness ==
    op = "wait" /\ ~high_precision /\ fobs.tgt0 - fobs.first > ONE_MS
        /\ fobs.slept = fobs.tgt0 - fobs.first /\ now > fobs.tgt0

\* C15: a log() call that produces a snapshot re-anchors the window at the
\* current frame timestamp: afterwards log_target = previous + log_interval,
\* previous_log = previous and prev_framecount = framecount; a call that
\* returns None changes nothing of the timer.  So the `previous` timestamps
\* of two consecutive snapshots are at least log_interval apart.
C15_ReAnchor ==
    [][ op' = "log" =>
          IF snap'.some
            THEN /\ log_target' = previous' + log_interval'
                 /\ previous_log' = previous'
                 /\ prev_framecount' = framecount'
                 /\ previous' - anchor >= log_interval'
                 /\ anchor = previous_log
            ELSE panicked' \/ UNCHANGED timer ]_vars

\* a second snapshot, taken after the boundary of the first was passed
C15_Witness ==
    op = "log" /\ snap.some /\ lobs.plog0 > created /\ lobs.cur > lobs.plog0
        /\ log_interval > 0 /\ log_target = previous + log_interval

\* C16: pacing state and statistics state are independent: log(), whether it
\* returns Some or None, leaves previous, target, framecount, the period,
\* max_delay_frames and high_precision unchanged, and frame() leaves
\* previous_log, log_target, prev_framecount and log_interval unchanged; so
\* what the next frame() call can return, for every delay of the caller, is
\* the same after a log() call as before it.
C16_Independent ==
    [][ /\ op' = "log" =>
             /\ UNCHANGED <<previous, target, framecount, delta_time,
                            max_delay_frames, high_precision>>
             /\ \A work \in 0..MaxWork : frame_returns(work)' = frame_returns(work)
        /\ op' = "frame" =>
             /\ UNCHANGED <<previous_log, log_target, prev_framecount, log_interval>>
             /\ [ret |-> ret', previous |-> previous', target |-> target']
                    \in frame_returns(fobs'.work) ]_vars

\* a frame() call that waited, made after a snapshot was taken
C16_Witness ==
    op = "frame" /\ anchor > created /\ fobs.waited /\ previous_log = anchor
        /\ prev_framecount < framecount /\ log_target = anchor + log_interval

\* C17: bounded lag: with a period P > 0, at the end of every frame() call
\* that did not wait, the deadline the call used (target - P) lies at most
\* slack = max_delay_frames * P before the time it observed (previous); a lag
\* larger than the slack at entry is gone at exit.
C17_BoundedLag ==
    op = "frame" /\ delta_time > 0 /\ ~fobs.waited =>
        /\ previous - (target - delta_time) <= max_delay_frames * delta_time
        /\ fobs.cur0 - fobs.tgt0 > max_delay_frames * delta_time =>
               previous - (target - delta_time) = 0

\* a call that arrived with a lag above the slack and left none
C17_Witness ==
    op = "frame" /\ delta_time > 0 /\ ~fobs.waited /\ framecount >= 2
        /\ fobs.cur0 - fobs.tgt0 > max_delay_frames * delta_time
        /\ previous = target - delta_time

\* C18: telescoping: after any sequence of frame() calls, whatever the
\* period, the delays and the resets, and with log() calls in between, the
\* sum of the durations frame() returned equals `previous` minus the
\* creation timestamp.
C18_Telescoping == total = previous - created

\* three frames, a snapshot and a reset later, with time accounted for
C18_Witness ==
    op = "frame" /\ framecount >= 3 /\ anchor > created /\ fobs.reset
        /\ total > ret /\ ret > 0

\* C19 as stated: in every reachable state previous_log <= previous,
\* prev_framecount <= framecount, framecount is the number of frame() calls
\* made, and log_target = previous_log + log_interval.
C19_WindowInvariant ==
    /\ previous_log <= previous
    /\ prev_framecount <= framecount
    /\ framecount = nframes
    /\ log_target = previous_log + log_interval

\* C19 amended: in every reachable state previous_log <= previous,
\* prev_framecount <= framecount, framecount is the number of frame() calls
\* made, and log_target is one log_interval after the value `previous` had
\* when log_target was last written (at creation, at the last snapshot or at
\* the last log_interval() call), which lies between previous_log and
\* previous; it is previous_log itself right after a snapshot and as long
\* as log_interval() was not called after a frame() call.
C19_WindowInvariantAmended ==
    /\ previous_log <= previous
    /\ prev_framecount <= framecount
    /\ framecount = nframes
    /\ log_target = log_base + log_interval
    /\ previous_log <= log_base
    /\ log_base <= previous
    /\ (op = "log" /\ snap.some) => log_base = previous_log
    /\ nset = 0 => log_base = previous_log
    /\ op = "log_interval" => log_base = previous

\* log_interval() called after a frame(): the boundary is counted from
\* `previous`, the window still starts at previous_log
C19_Witness ==
    op = "log_interval" /\ previous > previous_log /\ log_interval > 0
        /\ log_target = previous + log_interval
        /\ log_target > previous_log + log_interval

\* C20: the divisor log() uses is the number of frames in the window:
\* narrowing framecount - prev_framecount never changes its value, and so
\* never yields 0, however many frame() calls lie between two snapshots.
C20_NarrowingExact ==
    op = "log" /\ lobs.passed /\ lobs.wide >= 1 =>
        lobs.frames = lobs.wide /\ lobs.frames >= 1

====
